---- MODULE Spec2Model ----
(***************************************************************************)
(* A model of the metadata-extraction and query-scope engine of gorm:      *)
(* the Handle (type DB: clone, new, err), the Scope (Err, AddToVars, Raw,  *)
(* Exec, Set, InstanceId, Begin, CommitOrRollback) and field discovery     *)
(* (Fields, fieldFromStruct, PrimaryKeyField).                             *)
(*                                                                         *)
(* Go pointers are modelled as indices into heaps: dbs (the *DB objects),  *)
(* values (the map[string]interface{} objects), searches (the *search      *)
(* objects), scopes (the *Scope objects) and txs (the *sql.Tx objects).    *)
(* Index 0 is the nil pointer.                                             *)
(***************************************************************************)
EXTENDS Integers, Sequences, FiniteSets, TLC

\* ------------------------------------------------------------------ bounds
MaxDB == 2            \* Handles that may exist
MaxScope == 2         \* Scopes that may exist
MaxTx == 2            \* transactions that may be begun
MaxInstanceIds == 2   \* distinct addresses fmt.Sprintf("%v", &scope) may print
MaxSqlVars == 2       \* parameters one Scope may accumulate
MaxConds == 1         \* conditions one search object may accumulate
MaxRows == 1          \* largest rows-affected count a statement reports
MaxSqlScope == 1      \* Scopes that accumulate a statement
MaxFields == 3        \* fields a record type declares
MaxMaps == 2          \* field maps Scope.Fields may make on one Scope
MaxElems == 2         \* elements of a slice CallMethod runs over

\* ------------------------------------------------------------------ errors
\* An error value is the sequence of tokens of its message; the nil error is
\* the empty sequence.
Nil == <<>>
RecordNotFound == <<"record not found">>
ScanErrorPrefix == "sql: Scan error on column index"
ScanError == <<ScanErrorPrefix, " 0: converting string to int">>
ExecError == <<"exec failed">>
Errors == {RecordNotFound, ScanError, ExecError}

\* The test of DB.err as it would be were no error taken for a scan mismatch.
MatchesNoError(e) == FALSE

\* regexp.MustCompile(`^sql: Scan error on column index`).MatchString(err.Error())
MatchesScanError(e) == Len(e) > 0 /\ e[1] = ScanErrorPrefix

\* ------------------------------------------------------------- connections
\* The values of the sqlCommon interface: the session's *sql.DB, which also
\* implements sqlDb (Begin), and *sql.Tx values, which also implement sqlTx.
SessionDB == [kind |-> "sqlDb", id |-> 0]
TxConn(t) == [kind |-> "sqlTx", id |-> t]
IsSqlDb(c) == c.kind = "sqlDb"
IsSqlTx(c) == c.kind = "sqlTx"

VARIABLES
    dbs,        \* heap of *DB: [db, Error, values, search, RowsAffected]
    values,     \* heap of settings maps: each the set of its keys
    searches,   \* heap of *search: each the sequence of its conditions
    scopes,     \* heap of *Scope: [db, Search, instanceId, Sql, SqlVars]
    txs,        \* heap of *sql.Tx: [state, commits, rollbacks, db]
    ret         \* the last operation, its arguments, what it saw and returned

vars == <<dbs, values, searches, scopes, txs, ret>>

DBIds == 1..Len(dbs)
ScopeIds == 1..Len(scopes)
TxIds == 1..Len(txs)

\* scope.db.parent.db: the session connection; nothing in the source writes it.
parentDb == SessionDB

\* ------------------------------------------------------------------ Handle
EmptySearch == <<>>

\* search.clone(): a copy of the condition accumulator in a new object.
searchClone(s) == s

\* DB.clone as it would be were db.values set to s.values, the source's map.
cloneDBSharedValues(s, freshValues, freshSearch) ==
    [db |-> s.db, Error |-> s.Error, values |-> s.values,
     search |-> freshSearch, RowsAffected |-> 0]

\* DB.clone, the new DB: db, Error copied, RowsAffected left zero, a fresh map
\* and a fresh search object (their contents are set by the clone action).
cloneDB(s, freshValues, freshSearch) ==
    [db |-> s.db, Error |-> s.Error, values |-> freshValues,
     search |-> freshSearch, RowsAffected |-> 0]

\* The heaps after s.clone() of the DB record src (which is dbs[h], or dbs[h]
\* as new() has just changed it).
cloneHeaps(src) ==
    LET freshValues == Len(values) + 1
        freshSearch == Len(searches) + 1
    IN  /\ values' = Append(values, values[src.values])
        /\ searches' = Append(searches,
                IF src.search = 0 THEN EmptySearch
                ELSE searchClone(searches[src.search]))
        /\ dbs' = Append(dbs, cloneDB(src, freshValues, freshSearch))

clone(h) ==
    /\ Len(dbs) < MaxDB
    /\ cloneHeaps(dbs[h])
    /\ ret' = [op |-> "clone", db |-> h, val |-> Len(dbs) + 1]
    /\ UNCHANGED <<scopes, txs>>

\* DB.new: s.search = nil; return s.clone()
new(h) ==
    /\ Len(dbs) < MaxDB
    /\ LET src == [dbs[h] EXCEPT !.search = 0]
           freshValues == Len(values) + 1
           freshSearch == Len(searches) + 1
       IN  /\ values' = Append(values, values[src.values])
           /\ searches' = Append(searches, EmptySearch)
           /\ dbs' = Append([dbs EXCEPT ![h] = src],
                            cloneDB(src, freshValues, freshSearch))
    /\ ret' = [op |-> "new", db |-> h, val |-> Len(dbs) + 1,
               oldSearch |-> dbs[h].search]
    /\ UNCHANGED <<scopes, txs>>

\* DB.err as it would be were s.Error written only while it is nil.
errStoredFirstWins(old, e) ==
    IF old # Nil THEN old
    ELSE IF e = Nil THEN old
    ELSE IF e # RecordNotFound /\ MatchesScanError(e) THEN old
    ELSE e

\* What DB.err leaves in s.Error, given what was there.
errStored(old, e) ==
    IF e = Nil THEN old
    ELSE IF e # RecordNotFound /\ MatchesScanError(e) THEN old
    ELSE e

\* DB.err as it would be without the return nil of the scan-mismatch branch.
errReturnedUnchanged(e) == e

\* What DB.err returns.
errReturned(e) ==
    IF e # Nil /\ e # RecordNotFound /\ MatchesScanError(e) THEN Nil ELSE e

err(h, e) ==
    /\ dbs' = [dbs EXCEPT ![h].Error = errStored(@, e)]
    /\ ret' = [op |-> "err", db |-> h, err |-> e, old |-> dbs[h].Error,
               val |-> errReturned(e)]
    /\ UNCHANGED <<values, searches, scopes, txs>>

\* DB.InstantSet(name, value): s.values[name] = value
InstantSet(h, key) ==
    values' = [values EXCEPT ![dbs[h].values] = @ \cup {key}]

\* DB.Get(name)
Get(h, key) == key \in values[dbs[h].values]

\* A condition added to the Handle's accumulator (search.where and the like).
AddCondition(h, c) ==
    /\ dbs[h].search # 0
    /\ Len(searches[dbs[h].search]) < MaxConds
    /\ searches' = [searches EXCEPT ![dbs[h].search] = Append(@, c)]
    /\ ret' = [op |-> "AddCondition", db |-> h]
    /\ UNCHANGED <<dbs, values, scopes, txs>>

\* ------------------------------------------------------------------- Scope
\* A Scope as NewScope and New build it: only db and Search are set. began,
\* before, beginFailed and tx are history, not fields of the Go struct: the
\* transaction this Scope's Begin started and has not yet passed to
\* CommitOrRollback (0 for none), the connection the Handle held before that
\* Begin, whether the Scope's latest Begin started no transaction, and the
\* latest transaction this Scope's Begin started (0 for none).
ScopeValue(db, search) ==
    [db |-> db, Search |-> search, instanceId |-> 0, Sql |-> <<>>, SqlVars |-> <<>>,
     began |-> 0, before |-> parentDb, beginFailed |-> FALSE, tx |-> 0]

NewScope(h) ==
    /\ Len(scopes) < MaxScope
    /\ scopes' = Append(scopes, ScopeValue(h, dbs[h].search))
    /\ ret' = [op |-> "NewScope", db |-> h, val |-> Len(scopes) + 1]
    /\ UNCHANGED <<dbs, values, searches, txs>>

\* Scope.New: the same db, a new empty search.
ScopeNew(s) ==
    /\ Len(scopes) < MaxScope
    /\ searches' = Append(searches, EmptySearch)
    /\ scopes' = Append(scopes, ScopeValue(scopes[s].db, Len(searches) + 1))
    /\ ret' = [op |-> "Scope.New", scope |-> s, val |-> Len(scopes) + 1]
    /\ UNCHANGED <<dbs, values, txs>>

\* Scope.NewDB: scope.db.new()
NewDB(s) == new(scopes[s].db)

\* Scope.Err: latches a non-nil error on the Handle, returns its argument.
ScopeErr(s, e) ==
    LET h == scopes[s].db
    IN  /\ dbs' = IF e # Nil THEN [dbs EXCEPT ![h].Error = errStored(@, e)] ELSE dbs
        /\ ret' = [op |-> "Scope.Err", scope |-> s, err |-> e,
                   old |-> dbs[h].Error, val |-> e]
        /\ UNCHANGED <<values, searches, scopes, txs>>

HasError(s) == dbs[scopes[s].db].Error # Nil

\* Dialect.BinVar(i): the positional placeholder of the i-th parameter.
BinVar(i) == <<"$", i>>

\* Scope.AddToVars as it would be were the value put in front of the list.
AddToVarsPrepend(SqlVars, value) == <<value>> \o SqlVars

\* Scope.AddToVars: append(scope.SqlVars, value)
AddToVarsAppend(SqlVars, value) == Append(SqlVars, value)

\* Scope.AddToVars: scope.Dialect().BinVar(len(scope.SqlVars))
AddToVarsResult(SqlVars) == BinVar(Len(SqlVars))

AddToVars(s, value) ==
    /\ Len(scopes[s].SqlVars) < MaxSqlVars
    /\ scopes' = [scopes EXCEPT ![s].SqlVars = AddToVarsAppend(@, value)]
    /\ ret' = [op |-> "AddToVars", scope |-> s, arg |-> value,
               old |-> scopes[s].SqlVars,
               val |-> AddToVarsResult(scopes'[s].SqlVars)]
    /\ UNCHANGED <<dbs, values, searches, txs>>

\* strings.Replace(sql, "$$", "?", -1) on a string given as its characters:
\* non-overlapping occurrences, left to right.
RECURSIVE ReplaceDollars(_)
ReplaceDollars(sql) ==
    IF Len(sql) = 0 THEN <<>>
    ELSE IF Len(sql) >= 2 /\ sql[1] = "$" /\ sql[2] = "$"
         THEN <<"?">> \o ReplaceDollars(SubSeq(sql, 3, Len(sql)))
         ELSE <<sql[1]>> \o ReplaceDollars(Tail(sql))

RawInputs == { <<"q", "$", "$">>, <<"$", "$", "$">> }

\* Scope.Raw
Raw(s, sql) ==
    /\ scopes' = [scopes EXCEPT ![s].Sql = ReplaceDollars(sql)]
    /\ ret' = [op |-> "Raw", scope |-> s]
    /\ UNCHANGED <<dbs, values, searches, txs>>

\* Scope.Exec as it would be without the test of HasError.
ExecRunsAlways(s) == TRUE

\* Whether Scope.Exec calls scope.DB().Exec: if !scope.HasError()
ExecRuns(s) == ~HasError(s)

\* What sqlCommon.Exec can return on connection c: a finished transaction
\* refuses the statement, any other connection runs it or fails with a
\* driver error (Exec scans no column and finds no record).
ExecOutcomes(c) ==
    IF IsSqlTx(c) /\ txs[c.id].state # "active" THEN {ExecError}
    ELSE {Nil, ExecError}

\* Scope.Exec. execErr is the error of scope.DB().Exec, count and countOk what
\* result.RowsAffected() returns.
Exec(s, execErr, count, countOk) ==
    LET h == scopes[s].db
        seen == [op |-> "Exec", scope |-> s, db |-> h, conn |-> dbs[h].db,
                 sql |-> scopes[s].Sql, sqlVars |-> scopes[s].SqlVars,
                 oldError |-> dbs[h].Error, oldRows |-> dbs[h].RowsAffected]
    IN  /\ IF ExecRuns(s)
           THEN /\ execErr \in ExecOutcomes(dbs[h].db)
                /\ dbs' = [dbs EXCEPT
                       ![h].Error = IF execErr # Nil THEN errStored(@, execErr) ELSE @,
                       ![h].RowsAffected =
                           IF execErr = Nil /\ countOk THEN count ELSE @]
                /\ ret' = seen @@ [ran |-> 1, err |-> execErr, count |-> count,
                                   countOk |-> countOk]
           ELSE /\ execErr = Nil /\ count = 0 /\ countOk
                /\ dbs' = dbs
                /\ ret' = seen @@ [ran |-> 0, err |-> Nil, count |-> count,
                                   countOk |-> countOk]
        /\ UNCHANGED <<values, searches, scopes, txs>>

\* Scope.Set: scope.db.InstantSet(name, value)
Set(s, name) ==
    /\ InstantSet(scopes[s].db, <<name>>)
    /\ ret' = [op |-> "Set", scope |-> s]
    /\ UNCHANGED <<dbs, searches, scopes, txs>>

\* Scope.InstanceId: the identifiers a call may return. A Scope that has one
\* keeps it. Otherwise it is fmt.Sprintf("%v", &scope), the address of the
\* method's own receiver variable: a heap cell that is garbage as soon as the
\* call returns, so that a later call, on any Scope, may print the same address.
InstanceIds(s) ==
    IF scopes[s].instanceId # 0 THEN {scopes[s].instanceId}
    ELSE 1..MaxInstanceIds

\* name + scope.InstanceId()
InstanceKey(name, id) == <<name, id>>

StartedTransaction == "gorm:started_transaction"

\* Scope.Begin. ok is whether db.Begin() returns without an error, id what
\* InstanceId() returns.
Begin(s, ok, id) ==
    LET h == scopes[s].db
        c == dbs[h].db
        began == IsSqlDb(c) /\ ok
        t == Len(txs) + 1
    IN  /\ began => Len(txs) < MaxTx
        /\ id \in (IF began THEN InstanceIds(s) ELSE {0})
        /\ IF began
           THEN /\ txs' = Append(txs, [state |-> "active", commits |-> 0, rollbacks |-> 0,
                                     db |-> h])
                /\ dbs' = [dbs EXCEPT ![h].db = TxConn(t)]
                /\ scopes' = [scopes EXCEPT ![s].instanceId = id, ![s].began = t,
                                             ![s].before = c, ![s].beginFailed = FALSE,
                                             ![s].tx = t]
                /\ InstantSet(h, InstanceKey(StartedTransaction, id))
           ELSE /\ scopes' = [scopes EXCEPT ![s].beginFailed = TRUE]
                /\ UNCHANGED <<txs, dbs, values>>
        /\ ret' = [op |-> "Begin", scope |-> s, db |-> h, began |-> began,
                   conn |-> c, tx |-> IF began THEN t ELSE 0,
                   oldError |-> dbs[h].Error, oldValues |-> values[dbs[h].values]]
        /\ UNCHANGED searches

\* sql.Tx.Commit and sql.Tx.Rollback: the first of them ends the transaction,
\* a later one returns ErrTxDone and changes nothing.
TxCommit(t) ==
    [txs EXCEPT ![t].state = IF @ = "active" THEN "committed" ELSE @,
                ![t].commits = @ + 1]

TxRollback(t) ==
    [txs EXCEPT ![t].state = IF @ = "active" THEN "rolledback" ELSE @,
                ![t].rollbacks = @ + 1]

\* Scope.CommitOrRollback. id is what InstanceId() returns.
CommitOrRollback(s, id) ==
    LET h == scopes[s].db
        c == dbs[h].db
        marked == Get(h, InstanceKey(StartedTransaction, id))
        acts == marked /\ IsSqlTx(c)
    IN  /\ id \in InstanceIds(s)
        /\ scopes' = [scopes EXCEPT ![s].instanceId = id, ![s].began = 0]
        /\ IF acts
           THEN /\ txs' = IF HasError(s) THEN TxRollback(c.id) ELSE TxCommit(c.id)
                /\ dbs' = [dbs EXCEPT ![h].db = parentDb]
           ELSE UNCHANGED <<txs, dbs>>
        /\ ret' = [op |-> "CommitOrRollback", scope |-> s, db |-> h,
                   conn |-> c, marked |-> marked, oldError |-> dbs[h].Error,
                   began |-> scopes[s].began, before |-> scopes[s].before,
                   beginFailed |-> scopes[s].beginFailed,
                   did |-> IF ~acts THEN "none"
                           ELSE IF HasError(s) THEN "rollback" ELSE "commit"]
        /\ UNCHANGED <<values, searches>>

\* --------------------------------------------------------- field discovery
\* A record type is the sequence of its declared fields. A declared field
\* (reflect.StructField with its parsed tags) is
\*   [Name, Exported, Anonymous, Kind, Elem, Leaf, PRIMARY_KEY, COLUMN, IGNORE,
\*    EMBEDDED, FOREIGNKEY, FOREIGNTYPE, ASSOCIATIONFOREIGNKEY, MANY2MANY,
\*    POLYMORPHIC]
\* Kind is "int" (any type that is neither a struct nor a slice), "struct" or
\* "slice"; Elem names the struct type, or the slice's element type ("int"
\* when that is no struct); Leaf says the struct is time.Time or a sql.Scanner;
\* IGNORE says the tag under the tag identifier is "-"; the other tags hold
\* the settings parseTagSetting finds ("" or FALSE when absent).
Decl(name, kind, elem) ==
    [Name |-> name, Exported |-> TRUE, Anonymous |-> FALSE, Kind |-> kind,
     Elem |-> elem, Leaf |-> FALSE, PRIMARY_KEY |-> FALSE, COLUMN |-> "",
     IGNORE |-> FALSE, EMBEDDED |-> FALSE, FOREIGNKEY |-> "", FOREIGNTYPE |-> "",
     ASSOCIATIONFOREIGNKEY |-> "", MANY2MANY |-> "", POLYMORPHIC |-> ""]

\* The record types the checked types refer to:
\*   type Base struct { Id int }
\*   type Profile struct { Id int; UserId int }
\*   type Email struct { Id int; UserId int }
\*   type Tag struct { Id int }
DeclaredTypes ==
    [Base |-> << Decl("Id", "int", "") >>,
     Profile |-> << Decl("Id", "int", ""), Decl("UserId", "int", "") >>,
     Email |-> << Decl("Id", "int", ""), Decl("UserId", "int", "") >>,
     Tag |-> << Decl("Id", "int", "") >>]

\* The fields a type User may declare:
\*   Id int
\*   Code int `gorm:"primary_key"`
\*   Key int `gorm:"primary_key"`
\*   Name string
\*   Legacy int `gorm:"column:code" sql:"-"`
\*   Base                      (anonymous)
\*   Profile Profile
\*   Emails []Email
Palette ==
    { Decl("Id", "int", ""),
      [Decl("Code", "int", "") EXCEPT !.PRIMARY_KEY = TRUE],
      [Decl("Key", "int", "") EXCEPT !.PRIMARY_KEY = TRUE],
      Decl("Name", "int", ""),
      [Decl("Legacy", "int", "") EXCEPT !.COLUMN = "code", !.IGNORE = TRUE],
      [Decl("Base", "struct", "Base") EXCEPT !.Anonymous = TRUE],
      Decl("Profile", "struct", "Profile"),
      Decl("Emails", "slice", "Email") }

\* The fields a type User with relations may declare:
\*   Id int
\*   Emails []Email
\*   Tags []Tag
\*   Langs []Tag `gorm:"many2many:user_langs"`
\*   Profile Profile
\*   ProfileId int
\*   Owner Profile `gorm:"foreignkey:code"`
\*   Code int `sql:"-"`
RelationPalette ==
    { Decl("Id", "int", ""),
      Decl("Emails", "slice", "Email"),
      Decl("Tags", "slice", "Tag"),
      [Decl("Langs", "slice", "Tag") EXCEPT !.MANY2MANY = "user_langs"],
      Decl("Profile", "struct", "Profile"),
      Decl("ProfileId", "int", ""),
      [Decl("Owner", "struct", "Profile") EXCEPT !.FOREIGNKEY = "code"],
      [Decl("Code", "int", "") EXCEPT !.IGNORE = TRUE] }

\* ToSnake, on the names that occur.
ToSnake(name) ==
    CASE name = "Id" -> "id"
      [] name = "Code" -> "code"
      [] name = "Key" -> "key"
      [] name = "Name" -> "name"
      [] name = "Legacy" -> "legacy"
      [] name = "Base" -> "base"
      [] name = "Profile" -> "profile"
      [] name = "Emails" -> "emails"
      [] name = "UserId" -> "user_id"
      [] name = "ProfileId" -> "profile_id"
      [] name = "EmailId" -> "email_id"
      [] name = "Tags" -> "tags"
      [] name = "Langs" -> "langs"
      [] name = "Owner" -> "owner"

\* SnakeToUpperCamel, on the tag values that occur.
SnakeToUpperCamel(s) ==
    CASE s = "" -> ""
      [] s = "user_id" -> "UserId"
      [] s = "code" -> "Code"

VARIABLES
    decl,       \* the declared fields of type User
    fscope,     \* the Scope under discovery: [shape, val, fields, fieldsRef,
                \*   maps, primaryKeyField, halted]
    fret        \* the last discovery operation and what it returned

fvars == <<decl, fscope, fret>>

TypeFields(typ) == IF typ = "User" THEN decl ELSE DeclaredTypes[typ]

\* reflect.Type.FieldByName(name).IsValid() on a struct type: a declared
\* field, or one promoted from an anonymous struct field.
RECURSIVE HasFieldNamed(_, _)
HasFieldNamed(typ, name) ==
    \E i \in 1..Len(TypeFields(typ)) :
        LET f == TypeFields(typ)[i]
        IN  \/ f.Name = name
            \/ f.Anonymous /\ f.Kind = "struct" /\ HasFieldNamed(f.Elem, name)

\* A *Field. Value is what Field.Interface() returns, 0 standing for the zero
\* value of the field's type and 1 for any other value.
NilRelationship ==
    [Kind |-> "", JoinTable |-> "", ForeignKey |-> "", ForeignType |-> "",
     AssociationForeignKey |-> ""]

NilField ==
    [Name |-> "", DBName |-> "", Value |-> 0, IsBlank |-> TRUE,
     IsPrimaryKey |-> FALSE, IsIgnored |-> FALSE, IsNormal |-> FALSE,
     Relationship |-> NilRelationship]

\* reflect.Indirect(reflect.ValueOf(scope.Value)) as discovery reads it:
\* [kind, typ, addr, val]: kind "struct" for a record (of type typ,
\* addressable when reached through a pointer, every field of it holding val),
\* "slice", "ptr" or "invalid" otherwise.
NoValue(kind) == [kind |-> kind, typ |-> "", addr |-> FALSE, val |-> 0]
StructValue(typ, addr, val) == [kind |-> "struct", typ |-> typ, addr |-> addr, val |-> val]

NoPanic(fields) == [panic |-> FALSE, fields |-> fields]
Panic == [panic |-> TRUE, fields |-> <<>>]

RECURSIVE Fields(_, _)
RECURSIVE fieldFromStruct(_, _, _)
RECURSIVE FieldsLoop(_, _, _, _)

\* _, hasColumn = clone.Fields(false)[dbName], r being what Fields returned.
HasKey(r, dbName) == [panic |-> r.panic, has |-> ~r.panic /\ dbName \in DOMAIN r.fields]

\* Scope.HasColumn on a Scope whose value is the record v.
HasColumnOfStruct(v, column) == HasKey(Fields(v, FALSE), ToSnake(column))

\* The fields an embedded record contributes: those of the map r that Fields
\* returned for it.
EmbeddedFields(r) ==
    [panic |-> r.panic,
     list |-> IF r.panic THEN {} ELSE {r.fields[k] : k \in DOMAIN r.fields}]

\* The relation of a struct field as it would be were the owner's columns not
\* consulted: has_one with the has-one key.
StructRelationHasOne(field, has, belongsToForeignKey, hasOneForeignKey, foreignType) ==
    [panic |-> has.panic,
     list |-> IF has.panic THEN {}
              ELSE {[field EXCEPT !.Relationship =
                  [Kind |-> "has_one", JoinTable |-> "",
                   ForeignKey |-> hasOneForeignKey,
                   ForeignType |-> foreignType,
                   AssociationForeignKey |-> ""]]}]

\* The relation of a struct field: belongs_to when the owner has the column of
\* the belongs-to key (has is what HasColumn returned), has_one otherwise.
StructRelation(field, has, belongsToForeignKey, hasOneForeignKey, foreignType) ==
    [panic |-> has.panic,
     list |-> IF has.panic THEN {}
              ELSE {[field EXCEPT !.Relationship =
                  [Kind |-> IF has.has THEN "belongs_to" ELSE "has_one",
                   JoinTable |-> "",
                   ForeignKey |-> IF has.has THEN belongsToForeignKey
                                  ELSE hasOneForeignKey,
                   ForeignType |-> foreignType,
                   AssociationForeignKey |-> ""]]}]

\* The foreign key of a slice relation as it would be without the test of the
\* element type's fields.
SliceForeignKeyKept(many2many, foreignKey, elemHasField) == foreignKey

\* The foreign key of a slice relation: emptied when the relation is not many
\* to many and reflect.New(typ).Elem().FieldByName(foreignKey) is not valid.
SliceForeignKey(many2many, foreignKey, elemHasField) ==
    IF many2many = "" /\ ~elemHasField THEN "" ELSE foreignKey

\* Scope.fieldFromStruct: [panic, list], list the set of *Field it returns.
fieldFromStruct(v, fieldStruct, withRelation) ==
    LET field == [Name |-> fieldStruct.Name,
                  DBName |-> IF fieldStruct.COLUMN # "" THEN fieldStruct.COLUMN
                             ELSE ToSnake(fieldStruct.Name),
                  Value |-> v.val,
                  IsBlank |-> v.val = 0,
                  IsPrimaryKey |-> fieldStruct.PRIMARY_KEY,
                  IsIgnored |-> fieldStruct.IGNORE,
                  IsNormal |-> FALSE,
                  Relationship |-> NilRelationship]
        normal == [panic |-> FALSE, list |-> {[field EXCEPT !.IsNormal = TRUE]}]
        plain == [panic |-> FALSE, list |-> {field}]
        polymorphic == SnakeToUpperCamel(fieldStruct.POLYMORPHIC)
        foreignKey == IF polymorphic # "" THEN polymorphic \o "Id"
                      ELSE SnakeToUpperCamel(fieldStruct.FOREIGNKEY)
        foreignType == IF polymorphic # "" THEN polymorphic \o "Type"
                       ELSE SnakeToUpperCamel(fieldStruct.FOREIGNTYPE)
        many2many == fieldStruct.MANY2MANY
    IN  IF field.IsIgnored THEN plain
        ELSE IF fieldStruct.Kind = "slice" THEN
            IF fieldStruct.Elem # "int" /\ withRelation
            THEN LET fk == IF foreignKey = "" THEN v.typ \o "Id" ELSE foreignKey
                     afk == IF SnakeToUpperCamel(fieldStruct.ASSOCIATIONFOREIGNKEY) = ""
                            THEN fieldStruct.Elem \o "Id"
                            ELSE SnakeToUpperCamel(fieldStruct.ASSOCIATIONFOREIGNKEY)
                     fk2 == SliceForeignKey(many2many, fk,
                                            HasFieldNamed(fieldStruct.Elem, fk))
                 IN  [panic |-> FALSE,
                      list |-> {[field EXCEPT !.Relationship =
                          [Kind |-> IF many2many # "" THEN "many_to_many" ELSE "has_many",
                           JoinTable |-> many2many, ForeignKey |-> fk2,
                           ForeignType |-> foreignType,
                           AssociationForeignKey |-> afk]]}]
            ELSE normal
        ELSE IF fieldStruct.Kind = "struct" THEN
            IF fieldStruct.Leaf THEN normal
            ELSE IF fieldStruct.EMBEDDED \/ fieldStruct.Anonymous THEN
                IF v.addr
                THEN EmbeddedFields(Fields(StructValue(fieldStruct.Elem, TRUE, v.val), TRUE))
                ELSE [panic |-> FALSE, list |-> {}]
            ELSE IF withRelation THEN
                StructRelation(field,
                    HasColumnOfStruct(v, IF foreignKey = "" THEN field.Name \o "Id"
                                         ELSE foreignKey),
                    IF foreignKey = "" THEN field.Name \o "Id" ELSE foreignKey,
                    IF foreignKey = "" THEN v.typ \o "Id" ELSE foreignKey,
                    foreignType)
            ELSE plain
        ELSE normal

\* The loop body of Scope.Fields as it would be were a column already present
\* kept as it is, whatever its entry.
EnterFieldsKeepingFirst(acc, got) ==
    IF acc.panic \/ got.panic THEN [acc EXCEPT !.panic = TRUE]
    ELSE [panic |-> FALSE,
          fields |-> [k \in DOMAIN acc.fields \cup {f.DBName : f \in got.list} |->
              IF k \in DOMAIN acc.fields THEN acc.fields[k]
              ELSE CHOOSE f \in got.list : f.DBName = k],
          hasPrimaryKey |-> acc.hasPrimaryKey \/ \E f \in got.list : f.IsPrimaryKey]

\* One pass of the loop body of Scope.Fields: the fields got.list that
\* fieldFromStruct returned are entered into acc = [panic, fields,
\* hasPrimaryKey]. A column already present is replaced when its entry is
\* ignored and is a panic otherwise. The fields of one list have distinct
\* column names, so that the order in which a Go map yields the fields of an
\* embedded record does not show.
EnterFields(acc, got) ==
    IF acc.panic \/ got.panic THEN [acc EXCEPT !.panic = TRUE]
    ELSE IF \E f \in got.list : /\ f.DBName \in DOMAIN acc.fields
                                /\ ~acc.fields[f.DBName].IsIgnored
    THEN [acc EXCEPT !.panic = TRUE]
    ELSE [panic |-> FALSE,
          fields |-> [k \in DOMAIN acc.fields \cup {f.DBName : f \in got.list} |->
              IF k \in {f.DBName : f \in got.list}
              THEN CHOOSE f \in got.list : f.DBName = k
              ELSE acc.fields[k]],
          hasPrimaryKey |-> acc.hasPrimaryKey \/ \E f \in got.list : f.IsPrimaryKey]

\* The loop of Scope.Fields over the declared fields from the i-th on; a field
\* that is not exported is passed over.
FieldsLoop(v, withRelation, i, acc) ==
    IF acc.panic \/ i > Len(TypeFields(v.typ)) THEN acc
    ELSE FieldsLoop(v, withRelation, i + 1,
             EnterFields(acc,
                 IF TypeFields(v.typ)[i].Exported
                 THEN fieldFromStruct(v, TypeFields(v.typ)[i], withRelation)
                 ELSE [panic |-> FALSE, list |-> {}]))

\* The end of Scope.Fields: without a field flagged primary key, the field of
\* column id, if there is one, is flagged.
PromoteId(r) ==
    IF r.panic THEN Panic
    ELSE IF ~r.hasPrimaryKey /\ "id" \in DOMAIN r.fields
    THEN NoPanic([r.fields EXCEPT !["id"].IsPrimaryKey = TRUE])
    ELSE NoPanic(r.fields)

\* Scope.Fields computed afresh on the value v: [panic, fields], fields the
\* map from column name to *Field.
Fields(v, withRelation) ==
    IF v.kind # "struct" THEN NoPanic(<<>>)
    ELSE PromoteId(FieldsLoop(v, withRelation, 1,
             [panic |-> FALSE, fields |-> <<>>, hasPrimaryKey |-> FALSE]))

\* reflect.Indirect(reflect.ValueOf(scope.Value)) for the Scope's target: a
\* pointer to a User ("ptr"), a User passed by value ("value"), a slice of
\* User or a pointer to one ("slice"), a slice of *User ("sliceptr"), or nil.
IndirectValue ==
    CASE fscope.shape = "ptr" -> StructValue("User", TRUE, fscope.val)
      [] fscope.shape = "value" -> StructValue("User", FALSE, fscope.val)
      [] fscope.shape \in {"slice", "sliceptr"} -> NoValue("slice")
      [] fscope.shape = "nil" -> NoValue("invalid")

\* Whether Scope.Fields returns the cached map: withRelation && scope.fields != nil
FieldsCacheHitAnyCall(withRelation) == fscope.fieldsRef # 0

FieldsCacheHit(withRelation) == withRelation /\ fscope.fieldsRef # 0

\* Scope.Fields on the Scope under discovery: the cached map when relations
\* are asked for and the cache is set, else a fresh computation.
ScopeFields(withRelation) ==
    IF FieldsCacheHit(withRelation) THEN NoPanic(fscope.fields)
    ELSE Fields(IndirectValue, withRelation)

\* The Scope after Scope.Fields computed r (or panicked) in a map of its own,
\* the maps-th the Scope has made: with relations the map becomes the cache.
AfterFields(withRelation, r) ==
    IF r.panic THEN [fscope EXCEPT !.halted = TRUE, !.maps = @ + 1]
    ELSE IF withRelation
    THEN [fscope EXCEPT !.fields = r.fields, !.fieldsRef = fscope.maps + 1,
                        !.maps = @ + 1]
    ELSE [fscope EXCEPT !.maps = @ + 1]

\* Scope.Fields computing: r is what the loop finds, the map returned is a
\* new one.
FieldsReturns(withRelation, r) ==
    /\ fscope.maps < MaxMaps
    /\ fscope' = AfterFields(withRelation, r)
    /\ fret' = [op |-> "Fields", withRelation |-> withRelation,
                panic |-> r.panic, fields |-> r.fields, cached |-> FALSE,
                ref |-> IF r.panic THEN 0 ELSE fscope.maps + 1,
                oldRef |-> fscope.fieldsRef, oldFields |-> fscope.fields]
    /\ UNCHANGED decl

\* Scope.Fields returning the cached map.
FieldsCached(withRelation) ==
    /\ fscope' = fscope
    /\ fret' = [op |-> "Fields", withRelation |-> withRelation,
                panic |-> FALSE, fields |-> fscope.fields, cached |-> TRUE,
                ref |-> fscope.fieldsRef,
                oldRef |-> fscope.fieldsRef, oldFields |-> fscope.fields]
    /\ UNCHANGED decl

FieldsCall(withRelation) ==
    /\ ~fscope.halted
    /\ IF FieldsCacheHit(withRelation)
       THEN FieldsCached(withRelation)
       ELSE FieldsReturns(withRelation, Fields(IndirectValue, withRelation))

\* The value PrimaryKeyField discovers the fields of: the Scope's own, or for a
\* slice reflect.New(indirectValue.Type().Elem()).Elem().Interface(): a zero
\* User passed by value, or a nil *User.
PrimaryKeyClone ==
    IF IndirectValue.kind = "slice"
    THEN IF fscope.shape = "sliceptr" THEN NoValue("invalid")
         ELSE StructValue("User", FALSE, 0)
    ELSE IndirectValue

\* clone.Fields() in PrimaryKeyField.
PrimaryKeyFields ==
    IF IndirectValue.kind = "slice" THEN Fields(PrimaryKeyClone, TRUE)
    ELSE ScopeFields(TRUE)

\* The fields the loop of PrimaryKeyField may stop at: ranging over a Go map
\* visits its entries in no fixed order, so it is any field flagged primary
\* key; NilField when there is none.
PrimaryKeyCandidates(r) ==
    IF r.panic \/ \A k \in DOMAIN r.fields : ~r.fields[k].IsPrimaryKey
    THEN {NilField}
    ELSE {r.fields[k] : k \in {c \in DOMAIN r.fields : r.fields[c].IsPrimaryKey}}

\* Scope.PrimaryKeyField computing the field: clone.Fields() returned r, the
\* loop stopped at pk. op is the method that called, kind what it returns.
PrimaryKeyFieldFinds(r, pk, op, kind) ==
    /\ fscope' = [(IF IndirectValue.kind = "slice"
                   THEN [fscope EXCEPT !.halted = r.panic]
                   ELSE IF FieldsCacheHit(TRUE) THEN fscope
                   ELSE AfterFields(TRUE, r)) EXCEPT !.primaryKeyField = pk]
    /\ fret' = [op |-> op, panic |-> r.panic, field |-> pk, cached |-> FALSE,
                val |-> CASE kind = "field" -> pk.Name
                          [] kind = "value" -> IF pk # NilField THEN pk.Value ELSE 0
                          [] kind = "zero" -> (IF pk # NilField THEN pk.Value ELSE 0) = 0]
    /\ UNCHANGED decl

PrimaryKeyFieldComputes(r, op, kind) ==
    \E pk \in PrimaryKeyCandidates(r) : PrimaryKeyFieldFinds(r, pk, op, kind)

\* Scope.PrimaryKeyField returning the cached field.
PrimaryKeyFieldCached(op, kind) ==
    /\ fscope' = fscope
    /\ fret' = [op |-> op, panic |-> FALSE, field |-> fscope.primaryKeyField,
                cached |-> TRUE,
                val |-> CASE kind = "field" -> fscope.primaryKeyField.Name
                          [] kind = "value" -> fscope.primaryKeyField.Value
                          [] kind = "zero" -> fscope.primaryKeyField.Value = 0]
    /\ UNCHANGED decl

PrimaryKeyFieldCall(op, kind) ==
    /\ ~fscope.halted
    /\ IF fscope.primaryKeyField # NilField
       THEN PrimaryKeyFieldCached(op, kind)
       ELSE /\ (IndirectValue.kind # "slice" /\ ~FieldsCacheHit(TRUE)) =>
                  fscope.maps < MaxMaps
            /\ PrimaryKeyFieldComputes(PrimaryKeyFields, op, kind)

PrimaryKeyField == PrimaryKeyFieldCall("PrimaryKeyField", "field")

\* Scope.PrimaryKeyValue: field.Field.Interface(), or 0 without a primary key.
PrimaryKeyValue == PrimaryKeyFieldCall("PrimaryKeyValue", "value")

\* Scope.PrimaryKeyZero: isBlank(reflect.ValueOf(scope.PrimaryKeyValue()))
PrimaryKeyZero == PrimaryKeyFieldCall("PrimaryKeyZero", "zero")

\* ------------------------------------------------------------ hook dispatch
\* Scope.CallMethod(name) on a Scope of Handle 1. Its target is nil, a *User
\* ("ptr"), a User passed by value ("value"), a []User or pointer to one
\* ("slice") or a []*User or pointer to one ("sliceptr"), a slice having n
\* elements. Type User declares the method name with a value receiver
\* ("value"), with a pointer receiver ("pointer") or not at all ("none"), and
\* with the signature sig.
VARIABLES
    cm          \* [shape, n, recv, sig, pc, i, calls, lastErr]: pc is "idle"
                \*   before the call, "loop" between two elements and "done"
                \*   after it, i the next index, calls the indices of the
                \*   elements the method was called on, in order, lastErr
                \*   what the latest call of the method returned

Signatures ==
    {"func()", "func(*Scope)", "func(*DB)", "func() error", "func(*Scope) error",
     "func(*DB) error", "func(int)"}

HookError == <<"hook failed">>
UnsupportedFunction == <<"unsupported function">>

\* The Handle of the Scope CallMethod runs on.
HookDB == 1

\* reflect.ValueOf(value).MethodByName(name).IsValid(), value being the target
\* itself or values.Index(i).Addr().Interface(): the method set of *User holds
\* the methods of both receivers, that of User the value receivers only, that
\* of **User none.
MethodFound ==
    CASE cm.shape = "ptr" -> cm.recv # "none"
      [] cm.shape = "value" -> cm.recv = "value"
      [] cm.shape = "slice" -> cm.recv # "none"
      [] cm.shape = "sliceptr" -> FALSE
      [] cm.shape = "nil" -> FALSE

\* What a method of signature sig may return: nothing (nil here), or an error
\* or nil.
HookResults(sig) ==
    IF sig \in {"func() error", "func(*Scope) error", "func(*DB) error"}
    THEN {Nil, HookError} ELSE {Nil}

\* The closure call of CallMethod on one value: the method, if found, is
\* called according to its signature and returns e; a method taking a *DB gets
\* scope.db.new(), which sets the search of the Scope's Handle to nil (the new
\* Handle is the method's own and is not kept here); an error returned goes to
\* Scope.Err, as does the error for a signature that is not supported.
call(e, next) ==
    LET invoked == MethodFound /\ cm.sig # "func(int)"
        latched == IF ~MethodFound THEN Nil
                   ELSE IF cm.sig = "func(int)" THEN UnsupportedFunction
                   ELSE e
    IN  /\ e \in (IF invoked THEN HookResults(cm.sig) ELSE {Nil})
        /\ dbs' = [dbs EXCEPT
               ![HookDB].search =
                   IF invoked /\ cm.sig \in {"func(*DB)", "func(*DB) error"} THEN 0 ELSE @,
               ![HookDB].Error =
                   IF latched # Nil THEN errStored(@, latched) ELSE @]
        /\ cm' = [cm EXCEPT !.calls = IF invoked THEN Append(@, cm.i) ELSE @,
                            !.lastErr = IF invoked THEN e ELSE @,
                            !.i = @ + 1,
                            !.pc = next]
        /\ UNCHANGED <<values, searches, scopes, txs, ret>>

\* Scope.CallMethod up to its first call of the closure: nothing on a nil
\* Value; the loop over a slice, the closure on scope.Value otherwise.
CallMethod(e) ==
    /\ cm.pc = "idle"
    /\ IF cm.shape = "nil"
       THEN /\ e = Nil
            /\ cm' = [cm EXCEPT !.pc = "done"]
            /\ UNCHANGED vars
       ELSE IF cm.shape \in {"slice", "sliceptr"}
       THEN IF cm.n = 0
            THEN /\ e = Nil
                 /\ cm' = [cm EXCEPT !.pc = "done"]
                 /\ UNCHANGED vars
            ELSE call(e, IF cm.n > 1 THEN "loop" ELSE "done")
       ELSE call(e, "done")

\* The loop of CallMethod at its next element.
CallMethodNext(e) ==
    /\ cm.pc = "loop"
    /\ call(e, IF cm.i + 1 < cm.n THEN "loop" ELSE "done")

\* ------------------------------------------------------------ specification
InitHandles ==
    /\ dbs = << [db |-> parentDb, Error |-> Nil, values |-> 1, search |-> 1,
                 RowsAffected |-> 0] >>
    /\ values = << {} >>
    /\ searches = << EmptySearch >>
    /\ scopes = << >>
    /\ txs = << >>
    /\ ret = [op |-> "Open"]

NewFieldScope(shape, val) ==
    [shape |-> shape, val |-> val, fields |-> <<>>, fieldsRef |-> 0, maps |-> 0,
     primaryKeyField |-> NilField, halted |-> FALSE]

\* No record under discovery.
\* No hook dispatch.
NoCallMethod ==
    [shape |-> "nil", n |-> 0, recv |-> "none", sig |-> "func()", pc |-> "done",
     i |-> 0, calls |-> <<>>, lastErr |-> Nil]

\* The Scopes CallMethod may be called on.
CallMethodTargets ==
    {[NoCallMethod EXCEPT !.shape = s[1], !.n = s[2], !.recv = r, !.sig = g,
                          !.pc = "idle"] :
        s \in ({"nil", "ptr", "value"} \X {0}) \cup
              ({"slice", "sliceptr"} \X (0..MaxElems)),
        r \in {"none", "value", "pointer"},
        g \in Signatures}

InitNoRecord ==
    /\ decl = <<>>
    /\ fscope = NewFieldScope("nil", 0)
    /\ fret = [op |-> "NewScope"]

\* The types User of up to MaxFields fields of the palette (each at most once:
\* a Go struct declares a field name once).
Decls ==
    {d \in UNION {[1..n -> Palette] : n \in 1..MaxFields} :
        \A i, j \in DOMAIN d : i # j => d[i] # d[j]}

\* The targets a Scope may hold: a record holds zero or non-zero values, the
\* element PrimaryKeyField makes for a slice is zero.
Targets ==
    ({"ptr", "value"} \X {0, 1}) \cup ({"slice", "sliceptr", "nil"} \X {0})

\* The types User with relations, of up to MaxFields fields.
RelationDecls ==
    {d \in UNION {[1..n -> RelationPalette] : n \in 1..MaxFields} :
        \A i, j \in DOMAIN d : i # j => d[i] # d[j]}

InitRelationRecord ==
    /\ decl \in RelationDecls
    /\ \E target \in Targets : fscope = NewFieldScope(target[1], target[2])
    /\ fret = [op |-> "NewScope"]

InitRecord ==
    /\ decl \in Decls
    /\ \E target \in Targets : fscope = NewFieldScope(target[1], target[2])
    /\ fret = [op |-> "NewScope"]

Init == InitHandles /\ InitNoRecord /\ cm = NoCallMethod
InitFields == InitHandles /\ InitRecord /\ cm = NoCallMethod
InitRelations == InitHandles /\ InitRelationRecord /\ cm = NoCallMethod
InitHooks == InitHandles /\ InitNoRecord /\ cm \in CallMethodTargets

SqlValues == {"a", "b"}
AnyError == Errors \cup {Nil}

\* A step of the Handles and Scopes leaves the record under discovery alone,
\* and a step of discovery leaves the Handles alone.
OnHandles(A) == A /\ UNCHANGED fvars /\ UNCHANGED cm
OnRecord(A) == A /\ UNCHANGED vars /\ UNCHANGED cm
OnHooks(A) == A /\ UNCHANGED fvars

\* The Handle's error: latching through DB.err and Scope.Err on Handles that
\* derive from one another.
NextErr ==
    \/ \E h \in DBIds : OnHandles(clone(h))
    \/ \E h \in DBIds, e \in AnyError : OnHandles(err(h, e))
    \/ \E h \in DBIds : OnHandles(Len(scopes) < MaxSqlScope /\ NewScope(h))
    \/ \E s \in ScopeIds, e \in AnyError : OnHandles(ScopeErr(s, e))

\* The Handle: derivation, settings, conditions and errors.
NextHandle ==
    \/ \E h \in DBIds : OnHandles(clone(h))
    \/ \E h \in DBIds : OnHandles(new(h))
    \/ \E h \in DBIds, e \in {ScanError, ExecError} : OnHandles(err(h, e))
    \/ \E h \in DBIds : OnHandles(AddCondition(h, "c"))
    \/ \E h \in DBIds : OnHandles(Len(scopes) < MaxSqlScope /\ NewScope(h))
    \/ \E s \in ScopeIds : OnHandles(Set(s, "k"))

\* One Scope's accumulation and execution of a statement.
NextSql ==
    \/ \E h \in DBIds : OnHandles(Len(scopes) < MaxSqlScope /\ NewScope(h))
    \/ \E s \in ScopeIds, v \in SqlValues : OnHandles(AddToVars(s, v))
    \/ \E s \in ScopeIds, sql \in RawInputs : OnHandles(Raw(s, sql))
    \/ \E s \in ScopeIds, e \in AnyError : OnHandles(ScopeErr(s, e))
    \/ \E s \in ScopeIds, e \in {Nil, ExecError}, n \in 0..MaxRows, ok \in BOOLEAN :
           OnHandles(Exec(s, e, n, ok))

\* Scopes and their transactions.
NextTx ==
    \/ \E h \in DBIds : OnHandles(clone(h))
    \/ \E h \in DBIds : OnHandles(NewScope(h))
    \/ \E s \in ScopeIds : OnHandles(ScopeNew(s))
    \/ \E s \in ScopeIds, e \in {ScanError, ExecError} : OnHandles(ScopeErr(s, e))
    \/ \E s \in ScopeIds, e \in {Nil, ExecError} : OnHandles(Exec(s, e, 0, TRUE))
    \/ \E s \in ScopeIds, ok \in BOOLEAN, id \in 0..MaxInstanceIds :
           OnHandles(Begin(s, ok, id))
    \/ \E s \in ScopeIds, id \in 1..MaxInstanceIds : OnHandles(CommitOrRollback(s, id))

\* Errors latched around one Scope's statements and transactions.
NextLatch ==
    \/ \E h \in DBIds : OnHandles(Len(scopes) < MaxSqlScope /\ NewScope(h))
    \/ \E h \in DBIds, e \in {ScanError, ExecError} : OnHandles(err(h, e))
    \/ \E s \in ScopeIds, e \in {ScanError, ExecError} : OnHandles(ScopeErr(s, e))
    \/ \E s \in ScopeIds, e \in {Nil, ExecError} : OnHandles(Exec(s, e, 0, TRUE))
    \/ \E s \in ScopeIds, ok \in BOOLEAN, id \in 0..MaxInstanceIds :
           OnHandles(Begin(s, ok, id))
    \/ \E s \in ScopeIds, id \in 1..MaxInstanceIds : OnHandles(CommitOrRollback(s, id))

\* Field discovery on one Scope.
NextFields ==
    \/ \E withRelation \in BOOLEAN : OnRecord(FieldsCall(withRelation))
    \/ OnRecord(PrimaryKeyField)
    \/ OnRecord(PrimaryKeyValue)
    \/ OnRecord(PrimaryKeyZero)

\* Field discovery on one Scope of a type with relations.
NextRelations ==
    \E withRelation \in BOOLEAN : OnRecord(FieldsCall(withRelation))

\* Hook dispatch on one Scope.
NextHooks ==
    \/ \E e \in {Nil, HookError} : OnHooks(CallMethod(e))
    \/ \E e \in {Nil, HookError} : OnHooks(CallMethodNext(e))

Next ==
    \/ NextErr \/ NextHandle \/ NextSql \/ NextTx
    \/ NextFields \/ NextRelations \/ NextHooks

allvars == <<vars, fvars, cm>>

Spec == Init /\ [][Next]_allvars
SpecErr == Init /\ [][NextErr]_allvars
SpecHandle == Init /\ [][NextHandle]_allvars
SpecSql == Init /\ [][NextSql]_allvars
SpecTx == Init /\ [][NextTx]_allvars
SpecLatch == Init /\ [][NextLatch]_allvars
SpecFields == InitFields /\ [][NextFields]_allvars
SpecRelations == InitRelations /\ [][NextRelations]_allvars
SpecHooks == InitHooks /\ [][NextHooks]_allvars

\* ------------------------------------------------------------------ claims
\* What a Handle's holder can observe of its settings, conditions and error.
Conditions(h) ==
    IF dbs[h].search = 0 THEN EmptySearch ELSE searches[dbs[h].search]

View(h) == <<values[dbs[h].values], Conditions(h), dbs[h].Error>>

C6_ReturnsItsArgument == ret.op = "err" => ret.val = ret.err

\* C6, amended: err returns the error it was given, except that it returns
\* nil for a scan-mismatch error (which it does not store either).
C6_ReturnsArgumentOrNilForScan ==
    ret.op = "err" => ret.val = (IF ret.err = ScanError THEN Nil ELSE ret.err)

\* err was given a scan-mismatch error and returned nil.
C6_Witness == ret.op = "err" /\ ret.err = ScanError /\ ret.val = Nil

\* C7: new() returns a Handle with an empty condition accumulator and the
\* source's settings, connection and error, and leaves the source Handle, its
\* condition accumulator included, as it was.
C7_NewLeavesSourceUnchanged ==
    ret.op = "new" =>
        /\ searches[dbs[ret.val].search] = EmptySearch
        /\ values[dbs[ret.val].values] = values[dbs[ret.db].values]
        /\ dbs[ret.val].db = dbs[ret.db].db
        /\ dbs[ret.val].Error = dbs[ret.db].Error
        /\ dbs[ret.db].search = ret.oldSearch

\* C8: clone() leaves the source as it was and gives the clone the source's
\* connection and equal settings, conditions and error; and no step changes
\* the settings, conditions or stored error of two Handles at once, so that
\* what is written to one of clone and source never shows in the other.
C8_CloneIsolation ==
    [][/\ \A a, b \in DBIds :
              a # b => (View(a)' = View(a) \/ View(b)' = View(b))
       /\ \A src \in DBIds, n \in {Len(dbs) + 1} :
              (ret'.op = "clone" /\ ret'.db = src /\ Len(dbs') = n) =>
                  /\ dbs'[src] = dbs[src]
                  /\ View(src)' = View(src)
                  /\ View(n)' = View(src)
                  /\ dbs'[n].db = dbs[src].db
                  /\ dbs'[n].values # dbs[src].values
                  /\ dbs'[n].search # dbs[src].search
    ]_vars

\* Handle 2 is a clone of Handle 1, and the two have since come to differ in
\* settings, conditions and error.
C8_Witness ==
    /\ Len(dbs) >= 2
    /\ dbs[1].search # 0
    /\ values[dbs[1].values] # values[dbs[2].values]
    /\ Conditions(1) # Conditions(2)
    /\ dbs[1].Error # dbs[2].Error

\* C9: every AddToVars appends its value to the Scope's parameter list and
\* returns the placeholder of the new length, and nothing else changes a
\* parameter list: the k-th call leaves k parameters in call order.
C9_AppendOnly ==
    [][\A s \in ScopeIds :
          IF ret'.op = "AddToVars" /\ ret'.scope = s
          THEN /\ scopes'[s].SqlVars = scopes[s].SqlVars \o <<ret'.arg>>
               /\ ret'.val = <<"$", Len(scopes[s].SqlVars) + 1>>
          ELSE scopes'[s].SqlVars = scopes[s].SqlVars
    ]_vars

\* A second, different parameter was added.
C9_Witness ==
    /\ ret.op = "AddToVars"
    /\ Len(scopes[ret.scope].SqlVars) = 2
    /\ scopes[ret.scope].SqlVars[1] # scopes[ret.scope].SqlVars[2]
    /\ ret.val = <<"$", 2>>

\* C5: Exec on a Scope whose Handle has an error runs nothing and leaves the
\* Handle's error and rows-affected as they were; with no error it runs the
\* Scope's SQL with the Scope's parameters once, stores the error the
\* connection returns, and sets rows-affected only when the statement
\* succeeded.
C5_Exec ==
    ret.op = "Exec" =>
        LET db == dbs[ret.db]
        IN  IF ret.oldError # Nil
            THEN /\ ret.ran = 0
                 /\ db.Error = ret.oldError
                 /\ db.RowsAffected = ret.oldRows
            ELSE /\ ret.ran = 1
                 /\ ret.sql = scopes[ret.scope].Sql
                 /\ ret.sqlVars = scopes[ret.scope].SqlVars
                 /\ db.Error = ret.err
                 /\ ret.err # Nil => db.RowsAffected = ret.oldRows
                 /\ ret.err = Nil =>
                        db.RowsAffected = (IF ret.countOk THEN ret.count ELSE ret.oldRows)

\* C5 happens: a statement with text and a parameter ran without an error
\* and changed the Handle's rows-affected.
C5_Witness ==
    /\ ret.op = "Exec"
    /\ ret.ran = 1
    /\ ret.err = Nil
    /\ Len(ret.sql) > 0
    /\ Len(ret.sqlVars) > 0
    /\ dbs[ret.db].RowsAffected # ret.oldRows

\* C2: the first CommitOrRollback of a Scope after its Begin started a
\* transaction commits that transaction when the Handle has no error and
\* rolls it back when it has one, whatever happened in between, and leaves
\* the Handle with the connection it had before the Begin.
C2_BeginFinishRoundTrip ==
    (ret.op = "CommitOrRollback" /\ ret.began # 0) =>
        /\ ret.conn = TxConn(ret.began)
        /\ ret.did = (IF ret.oldError = Nil THEN "commit" ELSE "rollback")
        /\ dbs[ret.db].db = ret.before

\* C3: CommitOrRollback commits, rolls back or swaps the connection only on
\* the Scope whose own Begin started the transaction the Handle is in.
C3_OnlyTheBeginningScopeFinishes ==
    (ret.op = "CommitOrRollback" /\ (ret.did # "none" \/ dbs[ret.db].db # ret.conn)) =>
        /\ ret.began # 0
        /\ ret.conn = TxConn(ret.began)

\* C4: a Begin that starts no transaction leaves the Handle's error,
\* connection and settings as they were, and a CommitOrRollback of a Scope
\* whose latest Begin started none (and that has no earlier transaction of its
\* own to finish) neither commits nor rolls back.
C4_FailedBeginIsSwallowed ==
    /\ (ret.op = "Begin" /\ ~ret.began) =>
           /\ dbs[ret.db].Error = ret.oldError
           /\ dbs[ret.db].db = ret.conn
           /\ values[dbs[ret.db].values] = ret.oldValues
    /\ (ret.op = "CommitOrRollback" /\ ret.beginFailed /\ ret.began = 0) =>
           ret.did = "none"

\* The positions of the fields of type User tagged primary key.
TaggedPrimaryKey == {i \in DOMAIN decl : decl[i].PRIMARY_KEY}

\* Type User declares a field of column id, itself or through an embedded
\* record.
DeclaresId == \E i \in DOMAIN decl : decl[i].Name = "Id"
EmbedsId ==
    \E i \in DOMAIN decl :
        /\ decl[i].Kind = "struct" /\ (decl[i].Anonymous \/ decl[i].EMBEDDED)
        /\ HasFieldNamed(decl[i].Elem, "Id")

\* C10: for a Scope on a record of type User, on a slice of them or on a
\* slice of pointers to them, when discovery does not halt: with one field
\* tagged primary key, PrimaryKeyField returns that field wherever it is
\* declared; with none tagged and a field Id, it returns that field, flagged
\* primary key; for a type with no tagged field and no column id there is no
\* primary key, PrimaryKeyValue is 0 and PrimaryKeyZero is true.
C10_PrimaryKeyField ==
    (/\ fret.op \in {"PrimaryKeyField", "PrimaryKeyValue", "PrimaryKeyZero"}
     /\ ~fret.panic
     /\ fscope.shape # "nil") =>
        /\ (\E i \in TaggedPrimaryKey : TaggedPrimaryKey = {i}) =>
               \A i \in TaggedPrimaryKey : fret.field.Name = decl[i].Name
        /\ (TaggedPrimaryKey = {} /\ DeclaresId) =>
               fret.field.Name = "Id" /\ fret.field.IsPrimaryKey
        /\ (TaggedPrimaryKey = {} /\ ~DeclaresId /\ ~EmbedsId) =>
               /\ fret.field = NilField
               /\ fret.op = "PrimaryKeyValue" => fret.val = 0
               /\ fret.op = "PrimaryKeyZero" => fret.val = TRUE

\* C11: on one Scope, a call of Fields with relations returns the cached map
\* once there is one (the same object, nothing recomputed) and otherwise makes
\* the map it returns the cache, so that any two such calls return the same
\* object; a call of Fields without relations returns a map newly made, and
\* the cache, object and contents, is after it what it was before it.
C11_FieldsCache ==
    (fret.op = "Fields" /\ ~fret.panic) =>
        /\ fret.withRelation =>
               /\ fret.ref = fscope.fieldsRef
               /\ fret.fields = fscope.fields
               /\ fret.oldRef # 0 =>
                      /\ fret.cached
                      /\ fret.ref = fret.oldRef
                      /\ fret.fields = fret.oldFields
        /\ ~fret.withRelation =>
               /\ ~fret.cached
               /\ fret.ref # 0 /\ fret.ref # fret.oldRef
               /\ fscope.fieldsRef = fret.oldRef
               /\ fscope.fields = fret.oldFields

\* C11 happens: Fields with relations returned the cached map, of some
\* columns, after a call without relations had made a map of its own.
C11_Witness ==
    /\ fret.op = "Fields" /\ fret.withRelation /\ fret.cached
    /\ DOMAIN fret.fields # {}
    /\ fscope.fieldsRef = 1
    /\ fscope.maps = 2

\* The column of a declared field: its COLUMN setting, or its name in snake
\* case.
ColumnOf(f) == IF f.COLUMN # "" THEN f.COLUMN ELSE ToSnake(f.Name)

\* The fields discovery comes to for the declared field f of a record, in
\* order, each with its column: the field itself, or for an embedded record
\* the fields of that record (none when the record cannot be addressed).
DiscoveredOf(f, addr) ==
    IF ~f.IGNORE /\ f.Kind = "struct" /\ ~f.Leaf /\ (f.EMBEDDED \/ f.Anonymous)
    THEN IF addr
         THEN [i \in DOMAIN DeclaredTypes[f.Elem] |->
                  [Name |-> DeclaredTypes[f.Elem][i].Name,
                   DBName |-> ColumnOf(DeclaredTypes[f.Elem][i]),
                   IsIgnored |-> DeclaredTypes[f.Elem][i].IGNORE]]
         ELSE <<>>
    ELSE << [Name |-> f.Name, DBName |-> ColumnOf(f), IsIgnored |-> f.IGNORE] >>

RECURSIVE DiscoveredFrom(_, _)
DiscoveredFrom(i, addr) ==
    IF i > Len(decl) THEN <<>>
    ELSE DiscoveredOf(decl[i], addr) \o DiscoveredFrom(i + 1, addr)

\* The fields discovery comes to on the Scope's target, in order.
Discovered ==
    IF IndirectValue.kind = "struct" THEN DiscoveredFrom(1, IndirectValue.addr)
    ELSE <<>>

\* The field j finds its column taken by field k, the last one before it of
\* that column.
TakenBy(d, j, k) ==
    /\ k < j
    /\ d[k].DBName = d[j].DBName
    /\ \A m \in (k + 1)..(j - 1) : d[m].DBName # d[j].DBName

\* C12: Fields halts, returning no map and leaving the cache and the Handles
\* as they are, exactly when a discovered field finds its column taken by an
\* entry that is not ignored; otherwise a field that finds its column taken
\* (by an ignored entry) replaces that entry, so that the map returned holds
\* for every column the last field discovered of it, under that column.
C12_DuplicateColumns ==
    fret.op = "Fields" =>
        /\ fret.panic <=>
               \E j, k \in DOMAIN Discovered :
                   TakenBy(Discovered, j, k) /\ ~Discovered[k].IsIgnored
        /\ fret.panic =>
               /\ fret.ref = 0
               /\ fscope.halted
               /\ fscope.fieldsRef = fret.oldRef /\ fscope.fields = fret.oldFields
               /\ \A h \in DBIds : dbs[h].Error = Nil
        /\ ~fret.panic =>
               /\ DOMAIN fret.fields = {Discovered[j].DBName : j \in DOMAIN Discovered}
               /\ \A c \in DOMAIN fret.fields : fret.fields[c].DBName = c
               /\ \A j \in DOMAIN Discovered :
                      (\A m \in DOMAIN Discovered :
                           m > j => Discovered[m].DBName # Discovered[j].DBName) =>
                          fret.fields[Discovered[j].DBName].Name = Discovered[j].Name

\* C12 happens: Fields returned a map in which a field has replaced an
\* ignored one of its column.
C12_Witness ==
    /\ fret.op = "Fields" /\ ~fret.panic /\ ~fret.cached
    /\ \E j, k \in DOMAIN Discovered :
           /\ TakenBy(Discovered, j, k)
           /\ Discovered[k].IsIgnored
           /\ fret.fields[Discovered[j].DBName].Name = Discovered[j].Name

\* C13: CallMethod on a slice of n elements of a type that declares the
\* method (with a signature CallMethod supports) calls it once on each
\* element, in the order 0..n-1, whatever the calls return; an error a call
\* returns is then the Handle's error; on a nil target nothing is called and
\* the Handle stays as it is.
C13_EveryElementOnce ==
    /\ (cm.shape \in {"slice", "sliceptr"} /\ cm.recv # "none" /\ cm.sig # "func(int)") =>
           /\ cm.calls = [k \in 1..Len(cm.calls) |-> k - 1]
           /\ cm.pc = "done" => Len(cm.calls) = cm.n
    /\ (cm.pc # "idle" /\ cm.lastErr # Nil) => dbs[HookDB].Error = cm.lastErr
    /\ (cm.shape = "nil" /\ cm.pc = "done") =>
           /\ cm.calls = <<>>
           /\ dbs[HookDB].Error = Nil /\ dbs[HookDB].search # 0

\* The field Fields returned for the declared field f.
Returned(f) == fret.fields[ColumnOf(f)]

\* C14: Fields with relations on a record of type User gives a slice field of
\* records that is not ignored the relation many_to_many with the join table
\* of its many2many setting when it has one and has_many otherwise, with
\* association foreign key <element type>Id and foreign key UserId, except
\* that the foreign key of a has_many relation is empty when the element type
\* has no field UserId; nothing halts and no Handle gets an error.
C14_SliceRelations ==
    (fret.op = "Fields" /\ fret.withRelation /\ IndirectValue.kind = "struct") =>
        /\ ~fret.panic
        /\ \A h \in DBIds : dbs[h].Error = Nil
        /\ \A i \in DOMAIN decl :
               (decl[i].Kind = "slice" /\ decl[i].Elem # "int" /\ ~decl[i].IGNORE) =>
                   LET r == Returned(decl[i]).Relationship
                   IN  /\ r.Kind = (IF decl[i].MANY2MANY # "" THEN "many_to_many"
                                    ELSE "has_many")
                       /\ r.JoinTable = decl[i].MANY2MANY
                       /\ r.AssociationForeignKey =
                              (IF decl[i].Elem = "Email" THEN "EmailId" ELSE "TagId")
                       /\ r.ForeignKey =
                              (IF decl[i].MANY2MANY = "" /\ decl[i].Elem = "Tag"
                               THEN "" ELSE "UserId")
                       /\ ~Returned(decl[i]).IsNormal

\* C14 happens: one type has a has_many relation with its key, one without it
\* and a many_to_many relation.
C14_Witness ==
    /\ fret.op = "Fields" /\ fret.withRelation /\ ~fret.panic
    /\ {"emails", "tags", "langs"} \subseteq DOMAIN fret.fields
    /\ fret.fields["emails"].Relationship.ForeignKey = "UserId"
    /\ fret.fields["tags"].Relationship.ForeignKey = ""
    /\ fret.fields["langs"].Relationship.Kind = "many_to_many"
    /\ fret.fields["langs"].Relationship.ForeignKey = "UserId"

\* C15: with relations, a struct field that is neither a leaf type nor embedded
\* gets a relationship: belongs_to when the owner has a column for the
\* belongs-to key (<field name>Id, or the key of the foreignkey tag), has_one
\* otherwise, with the key <owner type name>Id or the tagged key; the lookup of
\* the owner's column is a discovery without relations, so discovery returns.
\* A field tagged sql:"-" is an entry of the owner's field set and counts.
C15_BelongsToKey(f) ==
    CASE f.Name = "Profile" -> "ProfileId"
      [] f.Name = "Owner" -> "Code"

C15_HasOneKey(f) ==
    CASE f.Name = "Profile" -> "UserId"
      [] f.Name = "Owner" -> "Code"

C15_OwnerHas(key) == \E j \in DOMAIN decl : decl[j].Name = key

C15_StructRelations ==
    (fret.op = "Fields" /\ fret.withRelation /\ IndirectValue.kind = "struct") =>
        /\ ~fret.panic
        /\ \A i \in DOMAIN decl :
               (/\ decl[i].Kind = "struct" /\ ~decl[i].Leaf /\ ~decl[i].IGNORE
                /\ ~decl[i].Anonymous /\ ~decl[i].EMBEDDED) =>
                   LET r == Returned(decl[i]).Relationship
                       owns == C15_OwnerHas(C15_BelongsToKey(decl[i]))
                   IN  /\ r.Kind = (IF owns THEN "belongs_to" ELSE "has_one")
                       /\ r.ForeignKey = (IF owns THEN C15_BelongsToKey(decl[i])
                                          ELSE C15_HasOneKey(decl[i]))
                       /\ r.JoinTable = "" /\ r.AssociationForeignKey = ""
                       /\ ~Returned(decl[i]).IsNormal

\* A User { Profile Profile; ProfileId int; Owner Profile `foreignkey:code` }
\* discovered with relations: Profile belongs_to by ProfileId, Owner has_one
\* by Code.
C15_Witness ==
    /\ fret.op = "Fields" /\ fret.withRelation /\ ~fret.panic
    /\ IndirectValue.kind = "struct"
    /\ \E i, j, k \in DOMAIN decl :
           /\ decl[i].Name = "Profile" /\ decl[j].Name = "ProfileId"
           /\ decl[k].Name = "Owner"
           /\ Returned(decl[i]).Relationship.Kind = "belongs_to"
           /\ Returned(decl[i]).Relationship.ForeignKey = "ProfileId"
           /\ Returned(decl[k]).Relationship.Kind = "has_one"
           /\ Returned(decl[k]).Relationship.ForeignKey = "Code"

\* C16: for every target (a pointer to a record, a record by value, a slice
\* whose zero element is inspected) an anonymous record field puts the embedded
\* record's columns into the parent's field set under their own names, and the
\* embedding field itself has no entry: Fields on a User embedding Base returns
\* Base's id and no column base, and PrimaryKeyField on a slice of such Users
\* without a tagged primary key finds the embedded Id.
C16_EmbeddedColumns ==
    /\ (fret.op = "Fields" /\ ~fret.panic /\ IndirectValue.kind = "struct") =>
           \A i \in DOMAIN decl :
               (decl[i].Anonymous /\ decl[i].Kind = "struct") =>
                   /\ "id" \in DOMAIN fret.fields
                   /\ ToSnake(decl[i].Name) \notin DOMAIN fret.fields
    /\ (/\ fret.op = "PrimaryKeyField" /\ ~fret.panic /\ ~fret.cached
        /\ fscope.shape = "slice" /\ TaggedPrimaryKey = {} /\ EmbedsId) =>
           fret.field.Name = "Id"

\* C17: on a type with several fields tagged primary key, PrimaryKeyField
\* returns the first of them in declared order, and once it has returned a
\* field the Scope keeps returning that field.
C17_FirstDeclaredPrimaryKey ==
    (/\ fret.op \in {"PrimaryKeyField", "PrimaryKeyValue", "PrimaryKeyZero"}
     /\ ~fret.panic
     /\ fscope.shape \in {"ptr", "value", "slice"}
     /\ Cardinality(TaggedPrimaryKey) >= 2 /\ ~EmbedsId) =>
        /\ \A i \in TaggedPrimaryKey :
               (\A j \in TaggedPrimaryKey : i <= j) => fret.field.Name = decl[i].Name
        /\ fret.field = fscope.primaryKeyField

\* C18: an Exec through a Handle runs on the transaction's connection while a
\* Scope of that Handle is between its successful Begin and its
\* CommitOrRollback, and otherwise on the session's connection, never on the
\* connection of a transaction begun on that Handle and since finished. (A
\* Handle cloned during a transaction holds the transaction's connection
\* without a Scope of its own having begun; it is a different Handle.)
C18_ExecConnection ==
    (ret.op = "Exec" /\ ret.ran = 1) =>
        LET between == {s \in ScopeIds : scopes[s].db = ret.db /\ scopes[s].began # 0}
        IN  /\ \A s \in between : ret.conn = TxConn(scopes[s].began)
            /\ between = {} =>
                   \/ ret.conn = parentDb
                   \/ IsSqlTx(ret.conn) /\ txs[ret.conn.id].db # ret.db

\* The Handle an error was latched on by the call ret r records.
LatchedOn(r) == IF r.op = "err" THEN r.db ELSE scopes[r.scope].db

\* C19: latching a scan-mismatch error (DB.err, or Scope.Err passing it on)
\* leaves the Handle's stored error as it was, set or unset; when it was unset,
\* an Exec through that Handle right after it still runs its statement and a
\* CommitOrRollback right after it that finishes a transaction commits.
C19_ScanErrorNotStored ==
    [][/\ (ret'.op \in {"err", "Scope.Err"} /\ ret'.err = ScanError) =>
              /\ dbs' = dbs
              /\ ret'.old = dbs[LatchedOn(ret')].Error
       /\ (ret.op \in {"err", "Scope.Err"} /\ ret.err = ScanError /\ ret.old = Nil) =>
              /\ (ret'.op = "Exec" /\ ret'.db = LatchedOn(ret)) => ret'.ran = 1
              /\ (/\ ret'.op = "CommitOrRollback" /\ ret'.db = LatchedOn(ret)
                  /\ ret'.did # "none") =>
                     ret'.did = "commit"]_allvars

\* A scan-mismatch error latched inside an active transaction on a Handle
\* without an error: the Handle is still without one.
C19_Witness ==
    /\ ret.op \in {"err", "Scope.Err"} /\ ret.err = ScanError /\ ret.old = Nil
    /\ dbs[LatchedOn(ret)].Error = Nil
    /\ IsSqlTx(dbs[LatchedOn(ret)].db)
    /\ txs[dbs[LatchedOn(ret)].db.id].state = "active"

\* C20: a transaction is committed or rolled back at most once; the first
\* CommitOrRollback of the Scope that began it leaves it with exactly one
\* commit or one rollback, and every later CommitOrRollback of that Scope
\* (until it begins again) commits nothing, rolls back nothing and leaves the
\* Handle's connection as it is.
C20_AtMostOnce ==
    \A t \in TxIds : txs[t].commits + txs[t].rollbacks <= 1

C20_FirstFinish ==
    (ret.op = "CommitOrRollback" /\ ret.began # 0) =>
        txs[ret.began].commits + txs[ret.began].rollbacks = 1

C20_LaterFinish ==
    (ret.op = "CommitOrRollback" /\ ret.began = 0 /\ scopes[ret.scope].tx # 0) =>
        ret.did = "none" /\ dbs[ret.db].db = ret.conn

C20_FinalizedOnce == C20_AtMostOnce /\ C20_FirstFinish /\ C20_LaterFinish

====
